---- MODULE Spec2Model ----
(***************************************************************************)
(* The conversational assistant of primenest-api: the in-memory session    *)
(* store, the retry wrapper and the chat pipeline (intent resolution ->    *)
(* listing search -> response generation) of the assistant controller.     *)
(***************************************************************************)
EXTENDS Integers, Sequences, FiniteSets, TLC

(***************************************************************************)
(* Bounds of the model.  The three SESSION_CONFIG numbers are scaled down  *)
(* (20 messages, 30 minutes, 1000 sessions in the source) so that          *)
(* trimming, expiry and capacity eviction all happen within a few turns.   *)
(***************************************************************************)
maxHistoryLength == 2
sessionTimeout == 1
maxSessions == 2
MaxTime == 2
MaxTurns == 2
EvictTurns == 4
PipeTurns == 1
MaxRetries == 4

(***************************************************************************)
(* Program constants: the arguments of the two retryWithBackoff calls.     *)
(***************************************************************************)
IntentMaxRetries == 3
IntentBaseDelay == 500
GenMaxRetries == 2
GenBaseDelay == 1000
DefaultMaxPrice == 10000000

(***************************************************************************)
(* JavaScript values.  null, undefined, numbers, enumeration strings,      *)
(* free text (a sequence of tokens, so that URL encoding is visible) and   *)
(* arrays are tagged records; values with different tags are unequal.      *)
(***************************************************************************)
JNull == [null |-> TRUE]
JUndef == [undef |-> TRUE]
JNum(n) == [num |-> n]
JStr(s) == [str |-> s]
JTxt(t) == [txt |-> t]
JArr(a) == [arr |-> a]
JObj(o) == [obj |-> o]

IsNum(v) == DOMAIN v = {"num"}
IsStr(v) == DOMAIN v = {"str"}
IsTxt(v) == DOMAIN v = {"txt"}
IsArr(v) == DOMAIN v = {"arr"}
IsObj(v) == DOMAIN v = {"obj"}

\* JavaScript truthiness: null, undefined, 0 and the empty string are falsy.
Truthy(v) ==
  IF v = JNull \/ v = JUndef THEN FALSE
  ELSE IF IsNum(v) THEN v.num # 0
  ELSE IF IsStr(v) THEN v.str # ""
  ELSE IF IsTxt(v) THEN v.txt # <<>>
  ELSE TRUE

\* a || b
Or(a, b) == IF Truthy(a) THEN a ELSE b

Pow2(n) == 2 ^ n

(***************************************************************************)
(* The universe of the model: request slots and session ids.              *)
(***************************************************************************)
Slots == {1, 2}
ClientIds == {"s1", "s2"}
GenIds == {"g1"}

VARIABLES
  sessions,   \* conversationSessions: <<[id, s]>> in Map insertion order
  now,        \* Date.now()
  req,        \* the POST /chat requests, one per slot
  turns,      \* number of chat requests begun
  last,       \* response of the last clear / session-info request
  probe,      \* a retryWithBackoff invocation of its own, with any arguments
  adapter,    \* a searchListings call of its own, with any filters
  chats,      \* the chat table of the store: <<[id, userIDs, seenBy]>>
  calls       \* the requests to the chat controller, one per slot

vars == <<sessions, now, req, turns, last, probe, adapter, chats, calls>>

(***************************************************************************)
(* Session store.  A request holds its session object by reference: while  *)
(* the object is the store's entry under the request's id the reference is *)
(* "attached"; when the entry is deleted the request keeps the object      *)
(* itself (ctx.s), which the store can no longer reach.                    *)
(***************************************************************************)
Ids(st) == {st[k].id : k \in 1 .. Len(st)}
Has(st, id) == id \in Ids(st)
IndexOf(st, id) == CHOOSE k \in 1 .. Len(st) : st[k].id = id
Get(st, id) == st[IndexOf(st, id)].s
Delete(st, id) == SelectSeq(st, LAMBDA e : e.id # id)

\* the object literal of conversationSessions.set in getSessionContext
NewSession(t) ==
  [history |-> <<>>,
   lastIntent |-> JNull,
   lastLocation |-> JNull,
   preferences |-> [propertyType |-> JNull, priceRange |-> JNull,
                    bedrooms |-> JNull, locations |-> JArr(<<>>)],
   createdAt |-> t,
   lastActivity |-> t]

\* mutant: the least recently active session is removed instead
EvictLeastRecent(st) ==
  IF Len(st) > 0
  THEN LET k == CHOOSE i \in 1 .. Len(st) :
                  \A j \in 1 .. Len(st) :
                    \/ st[i].s.lastActivity < st[j].s.lastActivity
                    \/ st[i].s.lastActivity = st[j].s.lastActivity /\ i >= j
       IN SelectSeq(st, LAMBDA e : e.id # st[k].id)
  ELSE st

\* "Remove oldest session": the first key of the Map
EvictOldest(st) == IF Len(st) > 0 THEN Tail(st) ELSE st

\* size >= maxSessions
AtCapacity(st) == Len(st) >= maxSessions

\* session.lastActivity = Date.now()
Touch(st, id, t) == [st EXCEPT ![IndexOf(st, id)].s.lastActivity = t]

\* getSessionContext(sessionId): the store after the call
GetSessionContext(st, id, t) ==
  IF Has(st, id) THEN Touch(st, id, t)
  ELSE LET st1 == IF AtCapacity(st) THEN EvictOldest(st) ELSE st
       IN Touch(Append(st1, [id |-> id, s |-> NewSession(t)]), id, t)

\* history.slice(-maxHistoryLength)
LastN(h, n) == IF Len(h) > n THEN SubSeq(h, Len(h) - n + 1, Len(h)) ELSE h
TrimHistory(h) ==
  IF Len(h) > maxHistoryLength THEN LastN(h, maxHistoryLength) ELSE h

\* updateSessionContext(sessionId, {lastIntent, lastLocation})
UpdateSessionContext(st, id, intent, loc) ==
  IF Has(st, id)
  THEN [st EXCEPT ![IndexOf(st, id)].s =
          [@ EXCEPT !.lastIntent = intent, !.lastLocation = loc,
                    !.history = TrimHistory(@)]]
  ELSE st

\* mutant: a session idle for exactly the timeout is swept too
ExpiredAtTimeout(s, t) == t - s.lastActivity >= sessionTimeout

\* the predicate of the periodic sweep
Expired(s, t) == t - s.lastActivity > sessionTimeout
SweepStore(st, t) == SelectSeq(st, LAMBDA e : ~Expired(e.s, t))

Attached == [att |-> TRUE]
Detached(s) == [att |-> FALSE, s |-> s]
InFlight(q) == q.pc \notin {"idle", "done"}

\* the session object a request holds
Context(st, q) == IF q.ctx.att THEN Get(st, q.sid) ELSE q.ctx.s

\* mutant: getSessionContext hands out a copy of the session
DetachCopy(rq, st, st2) ==
  [r \in Slots |->
     IF InFlight(rq[r]) /\ rq[r].ctx.att
     THEN [rq[r] EXCEPT !.ctx = Detached(Get(IF Has(st2, rq[r].sid) THEN st2 ELSE st,
                                             rq[r].sid))]
     ELSE rq[r]]

\* the store went from st to st2: requests whose object left it keep the object
Detach(rq, st, st2) ==
  [r \in Slots |->
     IF InFlight(rq[r]) /\ rq[r].ctx.att /\ ~Has(st2, rq[r].sid)
     THEN [rq[r] EXCEPT !.ctx = Detached(Get(st, rq[r].sid))]
     ELSE rq[r]]

(***************************************************************************)
(* retryWithBackoff                                                        *)
(***************************************************************************)
NewRetry(maxRetries, baseDelay) ==
  [max |-> maxRetries, base |-> baseDelay, i |-> 0, calls |-> 0,
   fails |-> 0, delays |-> <<>>, result |-> 0, lastError |-> 0,
   out |-> "running"]

\* the loop condition i < maxRetries, then the call of fn
RetryCall(rt) ==
  IF rt.i < rt.max THEN [rt EXCEPT !.calls = @ + 1]
  ELSE [rt EXCEPT !.out = "threw"]

\* return await fn(): the result is that of the call just made
RetrySuccess(rt) == [rt EXCEPT !.out = "returned", !.result = rt.calls]

\* mutant: the loop sleeps after the last failed attempt too
RetrySleepsAlways(rt) == rt.i < rt.max

\* i < maxRetries - 1: another attempt remains, so the loop sleeps
RetrySleeps(rt) == rt.i < rt.max - 1

\* mutant: linear instead of exponential backoff
RetryDelayLinear(rt) == rt.base * (rt.i + 1)

\* const delay = baseDelay * Math.pow(2, i)
RetryDelay(rt) == rt.base * Pow2(rt.i)

\* the catch block: lastError = err, sleep when another attempt remains;
\* the loop then increments i and either calls again or throws
RetryFailure(rt) ==
  LET r1 == [rt EXCEPT !.fails = @ + 1, !.lastError = rt.calls]
  IN IF RetrySleeps(rt)
     THEN [r1 EXCEPT !.delays = Append(@, RetryDelay(rt)), !.out = "sleeping"]
     ELSE [r1 EXCEPT !.i = @ + 1, !.out = "threw"]

\* the timer fires: i++ and the next call of fn
RetryWake(rt) == RetryCall([rt EXCEPT !.i = @ + 1, !.out = "running"])

\* no invocation yet
NoRetry == [NewRetry(0, 0) EXCEPT !.out = "idle"]

\* retryWithBackoff(fn, maxRetries, baseDelay) is invoked
RetryBegin(maxRetries, baseDelay) ==
  /\ probe.out \in {"idle", "returned", "threw"}
  /\ probe' = RetryCall(NewRetry(maxRetries, baseDelay))
  /\ UNCHANGED <<chats, calls, sessions, now, req, turns, last, adapter>>

\* the call of fn in flight rejects
RetryFnFails ==
  /\ probe.out = "running"
  /\ probe' = RetryFailure(probe)
  /\ UNCHANGED <<chats, calls, sessions, now, req, turns, last, adapter>>

\* the call of fn in flight resolves
RetryFnReturns ==
  /\ probe.out = "running"
  /\ probe' = RetrySuccess(probe)
  /\ UNCHANGED <<chats, calls, sessions, now, req, turns, last, adapter>>

\* the backoff timer fires
RetryTimer ==
  /\ probe.out = "sleeping"
  /\ probe' = RetryWake(probe)
  /\ UNCHANGED <<chats, calls, sessions, now, req, turns, last, adapter>>

(***************************************************************************)
(* detectIntent: the reply of the completion service and its parsing       *)
(***************************************************************************)
Lagos == JTxt(<<"Lagos">>)
NewYork == JTxt(<<"New", " ", "York">>)
AandB == JTxt(<<"A", "&", "B", "=", "+">>)

IntentFields ==
  {"intent", "location", "propertyType", "priceRange", "bedrooms", "action"}

\* a JSON object of the completion service: absent keys read as undefined
Payload(o) == [k \in IntentFields |-> IF k \in DOMAIN o THEN o[k] ELSE JUndef]

\* the try block of detectIntent: JSON.parse(content || '{}') and the defaults
DetectIntentParse(reply) ==
  IF reply.kind = "text"
  THEN \* catch (e): return { intent: 'greeting', location: null }
       [intent |-> JStr("greeting"), location |-> JNull,
        propertyType |-> JUndef, priceRange |-> JUndef,
        bedrooms |-> JUndef, action |-> JUndef]
  ELSE LET response == IF reply.kind = "empty" THEN Payload(<<>>)
                       ELSE reply.payload
       IN [intent |-> Or(response.intent, JStr("greeting")),
           location |-> Or(response.location, JNull),
           propertyType |-> Or(response.propertyType, JStr("any")),
           priceRange |-> Or(response.priceRange, JNull),
           bedrooms |-> Or(response.bedrooms, JNull),
           action |-> Or(response.action, JStr("any"))]

NoIntent == [none |-> TRUE]

\* mutant: only the search intent leads to a listing search
SearchOnly(intent) == intent = JStr("search")

\* ['search', 'follow_up', 'clarification'].includes(intentData.intent)
SearchLike(intent) ==
  intent \in {JStr("search"), JStr("follow_up"), JStr("clarification")}

(***************************************************************************)
(* searchListings: the reply of the listing store and the returned result  *)
(***************************************************************************)
PageSize == 10
NoResults == [count |-> 0, posts |-> <<>>]

SearchListings(dbReply) ==
  IF dbReply.kind = "error"
  THEN \* catch (err): return { count: 0, posts: [] }
       [count |-> 0, posts |-> <<>>]
  ELSE LET posts == IF Len(dbReply.rows) > PageSize
                    THEN SubSeq(dbReply.rows, 1, PageSize) ELSE dbReply.rows
       IN [count |-> Len(posts), posts |-> posts]

\* the AND list searchListings builds from its filters
SearchWhere(filters) ==
  LET c1 == IF Truthy(filters.location)
            THEN <<[on |-> "location", value |-> filters.location]>> ELSE <<>>
      c2 == IF Truthy(filters.propertyType) /\ filters.propertyType # JStr("any")
            THEN <<[on |-> "property", value |-> filters.propertyType]>> ELSE <<>>
      min == IF IsObj(filters.priceRange) THEN filters.priceRange.obj.min ELSE JUndef
      max == IF IsObj(filters.priceRange) THEN filters.priceRange.obj.max ELSE JUndef
      c3 == IF Truthy(min) \/ Truthy(max)
            THEN <<[on |-> "price",
                    value |-> JObj([gte |-> IF Truthy(min) THEN min ELSE JUndef,
                                    lte |-> IF Truthy(max) THEN max ELSE JUndef])]>>
            ELSE <<>>
      c4 == IF Truthy(filters.bedrooms)
            THEN <<[on |-> "bedroom", value |-> filters.bedrooms]>> ELSE <<>>
      c5 == IF Truthy(filters.action) /\ filters.action # JStr("any")
            THEN <<[on |-> "type", value |-> filters.action]>> ELSE <<>>
  IN c1 \o c2 \o c3 \o c4 \o c5

\* no call of searchListings yet
NoSearch == [pc |-> "idle", filters |-> <<>>, issued |-> FALSE,
             where |-> <<>>, result |-> NoResults]

\* searchListings(filters) is called: $connect, then findMany with the AND list
SearchCall(filters, connects) ==
  /\ adapter.pc \in {"idle", "done"}
  /\ adapter' = IF connects
                THEN [pc |-> "query", filters |-> filters, issued |-> TRUE,
                      where |-> SearchWhere(filters), result |-> NoResults]
                ELSE \* $connect rejects: catch (err)
                     [pc |-> "done", filters |-> filters, issued |-> FALSE,
                      where |-> <<>>, result |-> SearchListings([kind |-> "error"])]
  /\ UNCHANGED <<chats, calls, sessions, now, req, turns, last, probe>>

\* findMany resolves or rejects
SearchAnswer(dbReply) ==
  /\ adapter.pc = "query"
  /\ adapter' = [adapter EXCEPT !.pc = "done", !.result = SearchListings(dbReply)]
  /\ UNCHANGED <<chats, calls, sessions, now, req, turns, last, probe>>

(***************************************************************************)
(* URLSearchParams: form-urlencoding of a text, token by token, and the    *)
(* decoding a reader of the query string applies                           *)
(***************************************************************************)
EncodeToken(c) ==
  CASE c = " " -> "+"
    [] c = "&" -> "%26"
    [] c = "=" -> "%3D"
    [] c = "+" -> "%2B"
    [] c = "%" -> "%25"
    [] OTHER -> c

DecodeToken(c) ==
  CASE c = "+" -> " "
    [] c = "%26" -> "&"
    [] c = "%3D" -> "="
    [] c = "%2B" -> "+"
    [] c = "%25" -> "%"
    [] OTHER -> c

\* mutant: the value is interpolated as it is (`/list?city=${location}`)
EncodeNothing(t) == t

Encode(t) == [k \in 1 .. Len(t) |-> EncodeToken(t[k])]
Decode(t) == [k \in 1 .. Len(t) |-> DecodeToken(t[k])]

\* String(v) of the values given to params.set
ToText(v) == IF IsNum(v) THEN <<ToString(v.num)>>
             ELSE IF IsStr(v) THEN <<v.str>>
             ELSE v.txt

\* params.set(key, value) on a list of <<key, value>> pairs
ParamsSet(params, key, value) ==
  IF \E k \in 1 .. Len(params) : params[k][1] = key
  THEN [k \in 1 .. Len(params) |->
          IF params[k][1] = key THEN <<key, ToText(value)>> ELSE params[k]]
  ELSE Append(params, <<key, ToText(value)>>)

RECURSIVE ParamsToString(_)
ParamsToString(params) ==
  IF params = <<>> THEN <<>>
  ELSE LET p == params[1]
           one == <<p[1], "=">> \o Encode(p[2])
       IN IF Len(params) = 1 THEN one
          ELSE one \o <<"&">> \o ParamsToString(Tail(params))

\* the parameters of the first branch of generateResponse
SearchParams(intentData) ==
  LET p1 == ParamsSet(<<>>, "city", intentData.location)
      p2 == IF Truthy(intentData.propertyType)
               /\ intentData.propertyType # JStr("any")
            THEN ParamsSet(p1, "property", intentData.propertyType) ELSE p1
      p3 == IF Truthy(intentData.bedrooms)
            THEN ParamsSet(p2, "bedroom", intentData.bedrooms) ELSE p2
      p4 == IF Truthy(intentData.priceRange)
            THEN ParamsSet(
                   ParamsSet(p3, "minPrice",
                             Or(intentData.priceRange.obj.min, JNum(0))),
                   "maxPrice",
                   Or(intentData.priceRange.obj.max, JNum(DefaultMaxPrice)))
            ELSE p3
  IN p4

\* `/list?${params.toString()}`
ListUrl(params) == JTxt(<<"/list?">> \o ParamsToString(params))
BuildSearchUrl(intentData) == ListUrl(SearchParams(intentData))
\* the recovery branch sets the city only
BuildCityUrl(intentData) ==
  ListUrl(ParamsSet(<<>>, "city", intentData.location))

\* intentData.intent === 'search' && intentData.location
RebuildsUrl(intentData) ==
  intentData.intent = JStr("search") /\ Truthy(intentData.location)

\* reading a query string back: split at "&", then at the first "="
RECURSIVE SplitAmp(_, _)
SplitAmp(q, cur) ==
  IF q = <<>> THEN <<cur>>
  ELSE IF Head(q) = "&" THEN <<cur>> \o SplitAmp(Tail(q), <<>>)
  ELSE SplitAmp(Tail(q), Append(cur, Head(q)))

QueryOf(url) == IF Len(url.txt) > 0 /\ url.txt[1] = "/list?"
                THEN Tail(url.txt) ELSE <<>>
QueryPairs(url) ==
  LET parts == SplitAmp(QueryOf(url), <<>>)
  IN {<<parts[k][1], Decode(SubSeq(parts[k], 3, Len(parts[k])))>> :
        k \in {j \in 1 .. Len(parts) :
                 Len(parts[j]) >= 2 /\ parts[j][2] = "="}}
QueryHas(url, key) == \E p \in QueryPairs(url) : p[1] = key
QueryGet(url, key) == (CHOOSE p \in QueryPairs(url) : p[1] = key)[2]
QueryKeys(url) == {p[1] : p \in QueryPairs(url)}

(***************************************************************************)
(* generateResponse: the reply of the generation service and what the      *)
(* function returns for it                                                 *)
(***************************************************************************)
GenFields == {"reply", "searchUrl", "suggestions", "preferences"}
GenPayload(o) == [k \in GenFields |-> IF k \in DOMAIN o THEN o[k] ELSE JUndef]
PrefKeys == {"propertyType", "priceRange", "bedrooms", "locations"}

\* { ...session.preferences, ...parsedData.preferences }
MergePrefs(old, p) == [k \in PrefKeys |-> IF k \in DOMAIN p THEN p[k] ELSE old[k]]

\* the fixed reply of the outer catch of generateResponse
GenFallback ==
  [reply |-> JStr("I'm here to help you find your perfect property!"),
   searchUrl |-> JNull,
   suggestions |-> JArr(<<"Show me apartments in Lagos",
                          "Find houses under 5M",
                          "2 bedroom flats for rent">>),
   preferences |-> JUndef]

\* the first branch: parsedData.searchUrl is rebuilt for a located search
WithSearchUrl(parsedData, intentData) ==
  IF RebuildsUrl(intentData)
  THEN [parsedData EXCEPT !.searchUrl = BuildSearchUrl(intentData)]
  ELSE parsedData

\* catch (parseErr): the embedded object is parsed again, city only
Recovered(payload, intentData) ==
  IF RebuildsUrl(intentData)
  THEN [payload EXCEPT !.searchUrl = BuildCityUrl(intentData)]
  ELSE payload

\* the value generateResponse returns and the store after it
GenerateResponse(st, sid, intentData, reply, t) ==
  IF reply.kind \in {"fail", "text"}
  THEN \* retries exhausted, or no JSON object in the reply
       [data |-> GenFallback, sessions |-> st, path |-> "fallback"]
  ELSE IF reply.kind = "embedded"
  THEN [data |-> Recovered(reply.payload, intentData),
        sessions |-> st, path |-> "recovered"]
  ELSE LET parsedData == WithSearchUrl(reply.payload, intentData)
       IN IF ~Truthy(parsedData.preferences)
          THEN [data |-> parsedData, sessions |-> st, path |-> "direct"]
          ELSE LET st1 == GetSessionContext(st, sid, t)
                   k == IndexOf(st1, sid)
                   merged == MergePrefs(st1[k].s.preferences,
                                        parsedData.preferences.obj)
                   st2 == [st1 EXCEPT ![k].s.preferences = merged]
                   loc == intentData.location
               IN IF ~Truthy(loc)
                  THEN [data |-> parsedData, sessions |-> st2, path |-> "direct"]
                  ELSE IF ~IsArr(merged.locations)
                  THEN \* locations.includes throws a TypeError
                       [data |-> Recovered(reply.payload, intentData),
                        sessions |-> st2, path |-> "recovered"]
                  ELSE IF \E j \in 1 .. Len(merged.locations.arr) :
                            merged.locations.arr[j] = loc
                  THEN [data |-> parsedData, sessions |-> st2, path |-> "direct"]
                  ELSE [data |-> parsedData,
                        sessions |-> [st2 EXCEPT ![k].s.preferences.locations =
                                        JArr(Append(merged.locations.arr, loc))],
                        path |-> "direct"]

(***************************************************************************)
(* chatWithAssistant                                                       *)
(***************************************************************************)
NoResp == [status |-> 0]

IdleReq ==
  [pc |-> "idle", sid |-> "", turn |-> 0, ctx |-> Attached,
   rt |-> NewRetry(0, 0),
   intentData |-> NoIntent, searched |-> FALSE, where |-> <<>>,
   dbError |-> FALSE,
   searchResults |-> NoResults,
   genReply |-> [kind |-> "none"], path |-> "none", resp |-> NoResp]

\* mutant: the message is not trimmed before the test
IsMissing(message) == ~Truthy(message)

\* !message || !message.trim()
IsBlank(message) ==
  ~Truthy(message) \/ \A k \in 1 .. Len(message.txt) : message.txt[k] = " "

BadRequest ==
  [status |-> 400,
   body |-> [reply |-> JStr("Please provide a message."), searchUrl |-> JNull,
             suggestions |-> JUndef, preferences |-> JUndef,
             sessionId |-> JUndef]]

\* mutant: the catch block reports the failure
ChatError(sid) ==
  [status |-> 500,
   body |-> [reply |-> JStr("Assistant error"), searchUrl |-> JNull,
             suggestions |-> JUndef, preferences |-> JUndef,
             sessionId |-> JStr(sid)]]

\* the catch block of chatWithAssistant
ChatFallback(sid) ==
  [status |-> 200,
   body |-> [reply |-> JStr("I'm having a moment! Let's try that again."),
             searchUrl |-> JNull,
             suggestions |-> JArr(<<"Apartments in Lagos", "Houses for rent",
                                    "Properties under 5M">>),
             preferences |-> JUndef,
             sessionId |-> JStr(sid)]]

\* res.status(200).json({ ...responseData, sessionId: sid })
ChatOk(data, sid) ==
  [status |-> 200,
   body |-> [reply |-> data.reply, searchUrl |-> data.searchUrl,
             suggestions |-> data.suggestions,
             preferences |-> data.preferences, sessionId |-> JStr(sid)]]

MessageOf(n) == JTxt(<<"msg", ToString(n)>>)

\* context.history.push(entry) on the store's entry of id
Push(st, id, entry) ==
  [st EXCEPT ![IndexOf(st, id)].s.history = Append(@, entry)]

\* validation, session lookup, history.push and the first detectIntent call
ChatStart(r, message, sessionId, generated, limit) ==
  /\ req[r].pc \in {"idle", "done"}
  /\ IF IsBlank(message)
     THEN /\ req' = [req EXCEPT ![r] = [IdleReq EXCEPT !.pc = "done",
                                                       !.resp = BadRequest]]
          /\ UNCHANGED <<chats, calls, sessions, now, turns, last, probe, adapter>>
     ELSE /\ turns < limit
          /\ \E sid \in {IF sessionId # "" THEN sessionId ELSE generated} :
             \E st1 \in {GetSessionContext(sessions, sid, now)} :
             \E st2 \in {Push(st1, sid, [role |-> "user", content |-> message])} :
               /\ sessions' = st2
               /\ req' = Detach(
                    [req EXCEPT ![r] =
                       [IdleReq EXCEPT !.pc = "intent_call", !.sid = sid,
                          !.turn = turns + 1,
                          !.rt = RetryCall(NewRetry(IntentMaxRetries,
                                                    IntentBaseDelay))]],
                    sessions, st2)
          /\ turns' = turns + 1
          /\ UNCHANGED <<chats, calls, now, last, probe, adapter>>

\* mutant: the catch block ends the request without sending anything
FailChatSilent(r, rt) ==
  /\ req' = [req EXCEPT ![r].pc = "done", ![r].rt = rt, ![r].ctx = Attached]
  /\ UNCHANGED <<chats, calls, sessions, now, turns, last, probe, adapter>>

\* the request ends in the catch block: no history push, no session update
FailChat(r, rt) ==
  /\ req' = [req EXCEPT ![r].pc = "done", ![r].rt = rt, ![r].ctx = Attached,
                        ![r].resp = ChatFallback(req[r].sid)]
  /\ UNCHANGED <<chats, calls, sessions, now, turns, last, probe, adapter>>

\* the completion service answers a detectIntent call
IntentReturn(r, reply) ==
  /\ req[r].pc = "intent_call"
  /\ IF reply.kind = "fail"
     THEN LET rt == RetryFailure(req[r].rt)
          IN IF rt.out = "sleeping"
             THEN /\ req' = [req EXCEPT ![r].pc = "intent_wait", ![r].rt = rt]
                  /\ UNCHANGED <<chats, calls, sessions, now, turns, last, probe, adapter>>
             ELSE FailChat(r, rt)
     ELSE LET intentData == DetectIntentParse(reply)
              searchLocation ==
                Or(intentData.location, Context(sessions, req[r]).lastLocation)
              searches == SearchLike(intentData.intent) /\ Truthy(searchLocation)
          IN /\ req' = [req EXCEPT
                  ![r].intentData = intentData,
                  ![r].pc = IF searches THEN "search" ELSE "gen_call",
                  ![r].searched = searches,
                  ![r].where =
                    IF searches
                    THEN SearchWhere([intentData EXCEPT !.location = searchLocation])
                    ELSE <<>>,
                  ![r].rt = IF searches THEN RetrySuccess(req[r].rt)
                            ELSE RetryCall(NewRetry(GenMaxRetries, GenBaseDelay))]
             /\ UNCHANGED <<chats, calls, sessions, now, turns, last, probe, adapter>>

\* the backoff timer of the intent retry fires
IntentWake(r) ==
  /\ req[r].pc = "intent_wait"
  /\ req' = [req EXCEPT ![r].pc = "intent_call", ![r].rt = RetryWake(req[r].rt)]
  /\ UNCHANGED <<chats, calls, sessions, now, turns, last, probe, adapter>>

\* mutant: searchListings lets the store's error through to the handler's catch
SearchReturnPropagates(r, dbReply) ==
  /\ req[r].pc = "search"
  /\ req' = IF dbReply.kind = "error"
            THEN [req EXCEPT ![r].dbError = TRUE, ![r].pc = "done",
                             ![r].ctx = Attached,
                             ![r].resp = ChatFallback(req[r].sid)]
            ELSE [req EXCEPT ![r].searchResults = SearchListings(dbReply),
                             ![r].pc = "gen_call",
                             ![r].rt = RetryCall(NewRetry(GenMaxRetries,
                                                          GenBaseDelay))]
  /\ UNCHANGED <<chats, calls, sessions, now, turns, last, probe, adapter>>

\* the listing store answers (or fails) and generateResponse makes its call
SearchReturn(r, dbReply) ==
  /\ req[r].pc = "search"
  /\ req' = [req EXCEPT ![r].searchResults = SearchListings(dbReply),
                        ![r].dbError = (dbReply.kind = "error"),
                        ![r].pc = "gen_call",
                        ![r].rt = RetryCall(NewRetry(GenMaxRetries, GenBaseDelay))]
  /\ UNCHANGED <<chats, calls, sessions, now, turns, last, probe, adapter>>

\* lines 429-444: the reply is pushed, the session updated, 200 sent
FinishChat(r, rt, reply) ==
  \E res \in {GenerateResponse(sessions, req[r].sid, req[r].intentData,
                               reply, now)} :
  \E rq1 \in {Detach(req, sessions, res.sessions)} :
  \* context.history.push: on the store's entry, or on the object held
  \E st1 \in {IF rq1[r].ctx.att
              THEN Push(res.sessions, req[r].sid,
                        [role |-> "model", content |-> res.data.reply])
              ELSE res.sessions} :
  \E lastLocation \in {IF rq1[r].ctx.att THEN Get(st1, req[r].sid).lastLocation
                       ELSE rq1[r].ctx.s.lastLocation} :
    /\ req' = [rq1 EXCEPT ![r].pc = "done", ![r].rt = rt, ![r].ctx = Attached,
                          ![r].genReply = reply, ![r].path = res.path,
                          ![r].resp = ChatOk(res.data, req[r].sid)]
    /\ sessions' = UpdateSessionContext(
                     st1, req[r].sid, req[r].intentData.intent,
                     Or(req[r].intentData.location, lastLocation))
    /\ UNCHANGED <<chats, calls, now, turns, last, probe, adapter>>

\* the generation service answers a call of generateResponse
GenReturn(r, reply) ==
  /\ req[r].pc = "gen_call"
  /\ IF reply.kind = "fail"
     THEN LET rt == RetryFailure(req[r].rt)
          IN IF rt.out = "sleeping"
             THEN /\ req' = [req EXCEPT ![r].pc = "gen_wait", ![r].rt = rt]
                  /\ UNCHANGED <<chats, calls, sessions, now, turns, last, probe, adapter>>
             ELSE FinishChat(r, rt, reply)
     ELSE FinishChat(r, RetrySuccess(req[r].rt), reply)

\* the backoff timer of the generation retry fires
GenWake(r) ==
  /\ req[r].pc = "gen_wait"
  /\ req' = [req EXCEPT ![r].pc = "gen_call", ![r].rt = RetryWake(req[r].rt)]
  /\ UNCHANGED <<chats, calls, sessions, now, turns, last, probe, adapter>>

(***************************************************************************)
(* The sweep, the clock and the two session endpoints                      *)
(***************************************************************************)
Sweep ==
  /\ sessions' = SweepStore(sessions, now)
  /\ req' = Detach(req, sessions, sessions')
  /\ UNCHANGED <<chats, calls, now, turns, last, probe, adapter>>

Tick ==
  /\ now < MaxTime
  /\ now' = now + 1
  /\ UNCHANGED <<chats, calls, sessions, req, turns, last, probe, adapter>>

\* mutant: the whole store is cleared
ClearEverySession(sessionId) ==
  /\ sessions' = IF sessionId # "" /\ Has(sessions, sessionId)
                 THEN <<>> ELSE sessions
  /\ req' = Detach(req, sessions, sessions')
  /\ last' = [op |-> "clear", status |-> 200,
              body |-> [reply |-> JStr("Session cleared. How can I help you today?"),
                        sessionId |-> JNull]]
  /\ UNCHANGED <<chats, calls, now, turns, probe, adapter>>

ClearSession(sessionId) ==
  /\ sessions' = IF sessionId # "" /\ Has(sessions, sessionId)
                 THEN Delete(sessions, sessionId) ELSE sessions
  /\ req' = Detach(req, sessions, sessions')
  /\ last' = [op |-> "clear", status |-> 200,
              body |-> [reply |-> JStr("Session cleared. How can I help you today?"),
                        sessionId |-> JNull]]
  /\ UNCHANGED <<chats, calls, now, turns, probe, adapter>>

\* mutant: the session is read through getSessionContext
GetSessionInfoByLookup(sessionId) ==
  /\ sessionId # ""
  /\ sessions' = GetSessionContext(sessions, sessionId, now)
  /\ req' = Detach(req, sessions, sessions')
  /\ last' = LET session == Get(sessions', sessionId)
             IN [op |-> "info", status |-> 200,
                 body |-> [createdAt |-> session.createdAt,
                           lastActivity |-> session.lastActivity,
                           messageCount |-> Len(session.history),
                           preferences |-> session.preferences]]
  /\ UNCHANGED <<chats, calls, now, turns, probe, adapter>>

GetSessionInfo(sessionId) ==
  /\ last' = IF sessionId = "" \/ ~Has(sessions, sessionId)
             THEN [op |-> "info", status |-> 404,
                   body |-> [error |-> JStr("Session not found")]]
             ELSE LET session == Get(sessions, sessionId)
                  IN [op |-> "info", status |-> 200,
                      body |-> [createdAt |-> session.createdAt,
                                lastActivity |-> session.lastActivity,
                                messageCount |-> Len(session.history),
                                preferences |-> session.preferences]]
  /\ UNCHANGED <<chats, calls, sessions, now, req, turns, probe, adapter>>

(***************************************************************************)
(* verifyToken in front of the three assistant routes                      *)
(***************************************************************************)
\* jwt.verify(token, JWT_SECRET_KEY): only a token signed with the key passes
Verifies(token) == token = JStr("valid")

\* authHeader && authHeader.startsWith("Bearer ") ? authHeader.substring(7)
BearerToken(header) ==
  IF header # JUndef /\ header.scheme = "Bearer " THEN JStr(header.cred)
  ELSE JUndef

\* mutant: the Authorization header is looked at before the cookie
SelectTokenHeaderFirst(cookie, header) ==
  IF Truthy(BearerToken(header)) THEN BearerToken(header) ELSE cookie

\* let token = req.cookies.token; if (!token) the Bearer header
SelectToken(cookie, header) ==
  IF Truthy(cookie) THEN cookie ELSE BearerToken(header)

\* the status verifyToken answers, or 0 when it calls next()
VerifyToken(cookie, header) ==
  LET token == SelectToken(cookie, header)
  IN IF ~Truthy(token) THEN 401
     ELSE IF ~Verifies(token) THEN 403
     ELSE 0

\* the response of verifyToken when it does not call next()
Denied(status) ==
  /\ last' = [op |-> "auth", status |-> status,
              body |-> [message |-> IF status = 401
                                    THEN JStr("Not Authenticated!")
                                    ELSE JStr("Token is not Valid!")]]
  /\ UNCHANGED <<chats, calls, sessions, now, req, turns, probe, adapter>>

\* router.post("/chat", verifyToken, chatWithAssistant)
RouteChat(cookie, header, r, message, sessionId, generated, limit) ==
  IF VerifyToken(cookie, header) # 0 THEN Denied(VerifyToken(cookie, header))
  ELSE ChatStart(r, message, sessionId, generated, limit)

\* router.post("/clear", verifyToken, clearSession)
RouteClear(cookie, header, sessionId) ==
  IF VerifyToken(cookie, header) # 0 THEN Denied(VerifyToken(cookie, header))
  ELSE ClearSession(sessionId)

\* router.get("/session/:sessionId", verifyToken, getSessionInfo)
RouteSession(cookie, header, sessionId) ==
  IF VerifyToken(cookie, header) # 0 THEN Denied(VerifyToken(cookie, header))
  ELSE GetSessionInfo(sessionId)

(***************************************************************************)
(* The chat controller: addChat, getChat, readChat over the chat table     *)
(***************************************************************************)
MaxChats == 1
MaxSeen == 2

Users == {"u1", "u2", "u3"}
UserOrder == <<"u1", "u2", "u3">>
Rank(u) == CHOOSE i \in 1 .. Len(UserOrder) : UserOrder[i] = u

\* [tokenUserId, receiverId].sort()
SortIds(a, b) == IF Rank(a) <= Rank(b) THEN <<a, b>> ELSE <<b, a>>

Elems(q) == {q[i] : i \in 1 .. Len(q)}

\* the id the store gives the next chat
ChatId(n) == "c" \o ToString(n)

\* where: { id }
ChatIndex(st, id) ==
  LET m == {j \in 1 .. Len(st) : st[j].id = id}
  IN IF m = {} THEN 0 ELSE CHOOSE j \in m : TRUE

\* findFirst({ AND: [{ userIDs: { has: a } }, { userIDs: { has: b } }] })
FindFirstBoth(st, a, b) ==
  LET m == {j \in 1 .. Len(st) : {a, b} \subseteq Elems(st[j].userIDs)}
  IN IF m = {} THEN JNull ELSE st[CHOOSE j \in m : \A i \in m : j <= i]

\* where: { id, userIDs: { hasSome: [user] } }
ChatIndexOfMember(st, id, user) ==
  LET j == ChatIndex(st, id)
  IN IF j # 0 /\ user \in Elems(st[j].userIDs) THEN j ELSE 0

NoCall ==
  [op |-> "none", pc |-> "idle", user |-> "", arg |-> "", found |-> JNull,
   resp |-> NoResp]

NewCall(op, pc, user, arg) ==
  [NoCall EXCEPT !.op = op, !.pc = pc, !.user = user, !.arg = arg]

Answer(k, status, body) ==
  [calls EXCEPT ![k].pc = "done", ![k].resp = [status |-> status, body |-> body]]

\* the rest of the state is that of the assistant
ChatOnly == UNCHANGED <<sessions, now, req, turns, last, probe, adapter>>

\* addChat up to its first query
AddChat(k, user, receiverId) ==
  /\ calls[k].pc \in {"idle", "done"}
  /\ Len(chats) < MaxChats
  /\ calls' =
       IF receiverId = ""
       THEN [calls EXCEPT ![k] =
               [NewCall("addChat", "done", user, receiverId) EXCEPT
                  !.resp = [status |-> 400,
                            body |-> [message |-> "Receiver ID is required!"]]]]
       ELSE IF user = receiverId
       THEN [calls EXCEPT ![k] =
               [NewCall("addChat", "done", user, receiverId) EXCEPT
                  !.resp = [status |-> 400,
                            body |-> [message |->
                                        "Cannot create chat with yourself!"]]]]
       ELSE [calls EXCEPT ![k] = NewCall("addChat", "find", user, receiverId)]
  /\ UNCHANGED chats
  /\ ChatOnly

\* the store answers the findFirst of addChat
AddChatFound(k, ok) ==
  /\ calls[k].op = "addChat" /\ calls[k].pc = "find"
  /\ calls' =
       IF ~ok
       THEN Answer(k, 500, [message |-> "Failed to create chat!"])
       ELSE LET existingChat == FindFirstBoth(chats, calls[k].user, calls[k].arg)
            IN IF existingChat # JNull
               THEN Answer(k, 200, existingChat)
               ELSE [calls EXCEPT ![k].pc = "create"]
  /\ UNCHANGED chats
  /\ ChatOnly

\* the store answers the create of addChat.  Whether the table rejects a
\* second chat of the same userIDs (error P2002) is declared in the store's
\* schema, not in the controller: on a duplicate both outcomes are drawn.
AddChatCreate(k, outcome) ==
  /\ calls[k].op = "addChat" /\ calls[k].pc = "create"
  /\ LET ids == SortIds(calls[k].user, calls[k].arg)
         newChat == [id |-> ChatId(Len(chats) + 1), userIDs |-> ids,
                     seenBy |-> <<calls[k].user>>]
     IN \/ /\ outcome = "created"
           /\ chats' = Append(chats, newChat)
           /\ calls' = Answer(k, 201, newChat)
        \/ /\ outcome = "P2002"
           /\ \E j \in 1 .. Len(chats) : chats[j].userIDs = ids
           /\ calls' = [calls EXCEPT ![k].pc = "refind"]
           /\ UNCHANGED chats
        \/ /\ outcome = "error"
           /\ calls' = Answer(k, 500, [message |-> "Failed to create chat!"])
           /\ UNCHANGED chats
  /\ ChatOnly

\* the store answers the findFirst of the P2002 branch; when it fails the
\* rejection leaves the handler and nothing is sent
AddChatRefound(k, ok) ==
  /\ calls[k].op = "addChat" /\ calls[k].pc = "refind"
  /\ calls' =
       IF ok
       THEN Answer(k, 200, FindFirstBoth(chats, calls[k].user, calls[k].arg))
       ELSE [calls EXCEPT ![k].pc = "done"]
  /\ UNCHANGED chats
  /\ ChatOnly

\* getChat up to its findUnique
GetChat(k, user, id) ==
  /\ calls[k].pc \in {"idle", "done"}
  /\ \A j \in 1 .. Len(chats) : Len(chats[j].seenBy) < MaxSeen
  /\ calls' = [calls EXCEPT ![k] = NewCall("getChat", "find", user, id)]
  /\ UNCHANGED chats
  /\ ChatOnly

\* the store answers the findUnique of getChat: the chat, or null
GetChatFound(k, ok) ==
  /\ calls[k].op = "getChat" /\ calls[k].pc = "find"
  /\ calls' =
       IF ~ok
       THEN Answer(k, 500, [message |-> "Failed to get chat!"])
       ELSE LET j == ChatIndexOfMember(chats, calls[k].arg, calls[k].user)
            IN [calls EXCEPT ![k].pc = "update",
                             ![k].found = IF j = 0 THEN JNull ELSE chats[j]]
  /\ UNCHANGED chats
  /\ ChatOnly

\* the store answers the update of getChat: where { id }, seenBy push
GetChatUpdate(k, ok) ==
  /\ calls[k].op = "getChat" /\ calls[k].pc = "update"
  /\ LET j == ChatIndex(chats, calls[k].arg)
     IN IF ~ok \/ j = 0
        THEN /\ calls' = Answer(k, 500, [message |-> "Failed to get chat!"])
             /\ UNCHANGED chats
        ELSE /\ chats' = [chats EXCEPT ![j].seenBy = Append(@, calls[k].user)]
             /\ calls' = Answer(k, 200, calls[k].found)
  /\ ChatOnly

\* readChat up to its update
ReadChat(k, user, id) ==
  /\ calls[k].pc \in {"idle", "done"}
  /\ calls' = [calls EXCEPT ![k] = NewCall("readChat", "update", user, id)]
  /\ UNCHANGED chats
  /\ ChatOnly

\* the store answers the update of readChat: where { id, userIDs hasSome },
\* seenBy set
ReadChatUpdate(k, ok) ==
  /\ calls[k].op = "readChat" /\ calls[k].pc = "update"
  /\ LET j == ChatIndexOfMember(chats, calls[k].arg, calls[k].user)
     IN IF ~ok \/ j = 0
        THEN /\ calls' = Answer(k, 500, [message |-> "Failed to read chat!"])
             /\ UNCHANGED chats
        ELSE /\ chats' = [chats EXCEPT ![j].seenBy = <<calls[k].user>>]
             /\ calls' = Answer(k, 200, chats'[j])
  /\ ChatOnly

(***************************************************************************)
(* Inputs and the specification                                            *)
(***************************************************************************)
Price(lo, hi) == JObj([min |-> lo, max |-> hi])

IntentReplies ==
  {[kind |-> "fail"], [kind |-> "text"], [kind |-> "empty"]} \cup
  {[kind |-> "json", payload |-> Payload(o)] : o \in
     {[intent |-> JStr("greeting")],
      [intent |-> JStr("advice"), location |-> JNull],
      [intent |-> JStr("search"), location |-> Lagos,
       propertyType |-> JStr("house"), bedrooms |-> JNum(2),
       priceRange |-> Price(JNum(0), JNum(5000000)), action |-> JStr("rent")],
      [intent |-> JStr("search"), location |-> NewYork,
       propertyType |-> JStr("any"), priceRange |-> Price(JNum(100), JUndef)],
      [intent |-> JStr("search"), location |-> AandB, bedrooms |-> JNum(1),
       priceRange |-> Price(JUndef, JNum(0))],
      [intent |-> JStr("search"), location |-> JNull, bedrooms |-> JNum(0)],
      [intent |-> JStr("follow_up")],
      [intent |-> JStr("purchase"), location |-> Lagos],
      [intent |-> JStr("clarification"), location |-> NewYork,
       bedrooms |-> JNum(3)]}}

ModelUrl == JTxt(<<"/list?", "city", "=", "Mars">>)

GenReplies ==
  {[kind |-> "fail"], [kind |-> "text"]} \cup
  {[kind |-> "json", payload |-> GenPayload(o)] : o \in
     {<<>>,
      [reply |-> JStr("r1"), searchUrl |-> JNull, suggestions |-> JArr(<<"a">>)],
      [reply |-> JStr("r2"), searchUrl |-> ModelUrl,
       preferences |-> JObj([propertyType |-> JStr("house")])],
      [reply |-> JStr("r3"), searchUrl |-> ModelUrl,
       preferences |-> JObj([locations |-> JNull])]}} \cup
  {[kind |-> "embedded", payload |-> GenPayload(o)] : o \in
     {[reply |-> JStr("r4"), searchUrl |-> ModelUrl]}}

DbReplies ==
  {[kind |-> "error"], [kind |-> "rows", rows |-> <<>>],
   [kind |-> "rows", rows |-> <<"p1", "p2">>]}

Messages == {JUndef, JTxt(<<>>), JTxt(<<" ">>), MessageOf(turns + 1)}
SessionIdArgs == ClientIds \cup GenIds \cup {""}

\* the replies drawn where the session store, not the payload, is studied
FewIntentReplies ==
  {[kind |-> "fail"],
   [kind |-> "json", payload |-> Payload([intent |-> JStr("search"),
                                          location |-> Lagos])]}
FewGenReplies ==
  {[kind |-> "fail"],
   [kind |-> "json", payload |-> GenPayload(
      [reply |-> JStr("r2"), searchUrl |-> ModelUrl,
       preferences |-> JObj([propertyType |-> JStr("house")])])]}
EvictIntentReplies ==
  {[kind |-> "json", payload |-> Payload([intent |-> JStr("greeting")])]}
EvictGenReplies ==
  {[kind |-> "json", payload |-> GenPayload([reply |-> JStr("r1")])]}
FewDbReplies == {[kind |-> "rows", rows |-> <<"p1", "p2">>]}

Init ==
  /\ sessions = <<>>
  /\ now = 0
  /\ req = [r \in Slots |-> IdleReq]
  /\ turns = 0
  /\ last = [op |-> "none"]
  /\ probe = NoRetry
  /\ adapter = NoSearch
  /\ chats = <<>>
  /\ calls = [k \in Slots |-> NoCall]

\* the steps of the chat requests of the slots S, with the given inputs
Chat(S, ids, intentReplies, dbReplies, genReplies, limit) ==
  \/ \E r \in S, m \in Messages, id \in ids, g \in GenIds :
       ChatStart(r, m, id, g, limit)
  \/ \E r \in S, reply \in intentReplies : IntentReturn(r, reply)
  \/ \E r \in S : IntentWake(r)
  \/ \E r \in S, dbReply \in dbReplies : SearchReturn(r, dbReply)
  \/ \E r \in S, reply \in genReplies : GenReturn(r, reply)
  \/ \E r \in S : GenWake(r)

\* one request at a time, any session, the sweep, the clock and the clearing
Next ==
  \/ Chat({1}, ClientIds \cup {""}, FewIntentReplies, FewDbReplies,
          FewGenReplies, MaxTurns)
  \/ Sweep
  \/ Tick
  \/ \E id \in SessionIdArgs : ClearSession(id)

Spec == Init /\ [][Next]_vars

\* more turns, so that a full store meets a new id: every upstream call
\* succeeds, and there is no sweep and no clearing
EvictNext ==
  \/ \E m \in Messages, id \in ClientIds \cup {""}, g \in GenIds :
       ChatStart(1, m, id, g, EvictTurns)
  \/ \E reply \in EvictIntentReplies : IntentReturn(1, reply)
  \/ \E reply \in EvictGenReplies : GenReturn(1, reply)
  \/ Tick

EvictSpec == Init /\ [][EvictNext]_vars

\* one session, every kind of upstream reply
PipeNext ==
  Chat({1}, {"s1", ""}, IntentReplies, DbReplies, GenReplies, PipeTurns)

PipeSpec == Init /\ [][PipeNext]_vars

\* retryWithBackoff called on its own, with any arguments
BaseDelays == {1, 250, 500, 1000}
RetryNext ==
  \/ \E m \in 0 .. MaxRetries, b \in BaseDelays : RetryBegin(m, b)
  \/ RetryFnFails
  \/ RetryFnReturns
  \/ RetryTimer

RetrySpec == Init /\ [][RetryNext]_vars

\* searchListings called on its own, with any filters
Filters ==
  [location : {JNull, JUndef, Lagos},
   propertyType : {JUndef, JStr("any"), JStr("house")},
   priceRange : {JNull, Price(JNum(0), JNum(0)), Price(JNum(100), JUndef)},
   bedrooms : {JNull, JNum(2)},
   action : {JStr("any"), JStr("rent")}]

SearchNext ==
  \/ \E f \in Filters, connects \in BOOLEAN : SearchCall(f, connects)
  \/ \E dbReply \in DbReplies : SearchAnswer(dbReply)

SearchSpec == Init /\ [][SearchNext]_vars

\* the two session endpoints beside chat requests whose upstream calls succeed
EndpointNext ==
  \/ \E m \in Messages, id \in ClientIds \cup {""}, g \in GenIds :
       ChatStart(1, m, id, g, MaxTurns)
  \/ \E reply \in EvictIntentReplies : IntentReturn(1, reply)
  \/ \E reply \in EvictGenReplies : GenReturn(1, reply)
  \/ Tick
  \/ \E id \in SessionIdArgs : ClearSession(id)
  \/ \E id \in SessionIdArgs : GetSessionInfo(id)

EndpointSpec == Init /\ [][EndpointNext]_vars

\* the three routes behind verifyToken, with any cookie and header
Cookies == {JUndef, JStr(""), JStr("valid"), JStr("forged")}
Headers ==
  {JUndef, [scheme |-> "Basic ", cred |-> "valid"]}
  \cup [scheme : {"Bearer "}, cred : {"", "valid", "forged"}]
AuthMessages == {JUndef, MessageOf(turns + 1)}
AuthIds == {"s1", ""}

AuthNext ==
  \/ \E c \in Cookies, h \in Headers, m \in AuthMessages, id \in AuthIds,
        g \in GenIds : RouteChat(c, h, 1, m, id, g, MaxTurns)
  \/ \E c \in Cookies, h \in Headers, id \in AuthIds : RouteClear(c, h, id)
  \/ \E c \in Cookies, h \in Headers, id \in AuthIds : RouteSession(c, h, id)
  \/ \E reply \in EvictIntentReplies : IntentReturn(1, reply)
  \/ \E reply \in EvictGenReplies : GenReturn(1, reply)

AuthSpec == Init /\ [][AuthNext]_vars

\* two requests in progress at once on one session id, every call succeeding
ConcTurns == 2
ConcIntentReplies ==
  {[kind |-> "fail"]} \cup
  {[kind |-> "json", payload |-> Payload(o)] : o \in
     {[intent |-> JStr("greeting")],
      [intent |-> JStr("search"), location |-> Lagos]}}
ConcGenReplies ==
  {[kind |-> "fail"]} \cup
  {[kind |-> "json", payload |-> GenPayload(o)] : o \in
     {[reply |-> JStr("r1"), searchUrl |-> JNull],
      [reply |-> JStr("r2"), searchUrl |-> JNull,
       preferences |-> JObj([propertyType |-> JStr("house")])]}}

ConcNext ==
  Chat(Slots, {"s1"}, ConcIntentReplies, FewDbReplies, ConcGenReplies, ConcTurns)

ConcSpec == Init /\ [][ConcNext]_vars

\* several turns on one session: a located search, turns without a location
\* of their own, and upstream calls that fail
StageTurns == 3
StageIntentReplies ==
  {[kind |-> "fail"]} \cup
  {[kind |-> "json", payload |-> Payload(o)] : o \in
     {[intent |-> JStr("greeting")],
      [intent |-> JStr("search"), location |-> Lagos],
      [intent |-> JStr("follow_up")]}}
StageGenReplies ==
  {[kind |-> "fail"],
   [kind |-> "json", payload |-> GenPayload([reply |-> JStr("r1")])]}

StageNext ==
  Chat({1}, {"s1"}, StageIntentReplies, FewDbReplies, StageGenReplies, StageTurns)

StageSpec == Init /\ [][StageNext]_vars

\* the same turns when every pending upstream call is eventually answered
\* (with a result or a failure) and every backoff timer eventually fires
LiveSpec ==
  /\ Init /\ [][StageNext]_vars
  /\ WF_vars(\E reply \in StageIntentReplies : IntentReturn(1, reply))
  /\ WF_vars(IntentWake(1))
  /\ WF_vars(\E dbReply \in FewDbReplies : SearchReturn(1, dbReply))
  /\ WF_vars(\E reply \in StageGenReplies : GenReturn(1, reply))
  /\ WF_vars(GenWake(1))

\* two requests in progress on one session id beside its clearing
ClearNext ==
  \/ Chat(Slots, {"s1"}, ConcIntentReplies, FewDbReplies, ConcGenReplies, ConcTurns)
  \/ ClearSession("s1")

ClearSpec == Init /\ [][ClearNext]_vars

\* the chat controller, two requests in progress at once
Callers == {"u1", "u2"}
Readers == {"u1", "u3"}
ReceiverArgs == Callers \cup {""}
ChatIdArgs == {ChatId(n) : n \in 1 .. MaxChats}
CreateOutcomes == {"created", "P2002", "error"}

ChatNext ==
  \/ \E k \in Slots, u \in Callers, v \in ReceiverArgs : AddChat(k, u, v)
  \/ \E k \in Slots, ok \in BOOLEAN : AddChatFound(k, ok)
  \/ \E k \in Slots, outcome \in CreateOutcomes : AddChatCreate(k, outcome)
  \/ \E k \in Slots, ok \in BOOLEAN : AddChatRefound(k, ok)
  \/ \E k \in Slots, u \in Readers, id \in ChatIdArgs : GetChat(k, u, id)
  \/ \E k \in Slots, ok \in BOOLEAN : GetChatFound(k, ok)
  \/ \E k \in Slots, ok \in BOOLEAN : GetChatUpdate(k, ok)
  \/ \E k \in Slots, u \in Readers, id \in ChatIdArgs : ReadChat(k, u, id)
  \/ \E k \in Slots, ok \in BOOLEAN : ReadChatUpdate(k, ok)

ChatSpec == Init /\ [][ChatNext]_vars

(***************************************************************************)
(* Properties                                                              *)
(***************************************************************************)
Quiet == \A r \in Slots : ~InFlight(req[r])
Sids == 1 .. Len(sessions)
IdSeq(st) == [k \in 1 .. Len(st) |-> st[k].id]
Idle(s) == now - s.lastActivity
UserTurns(h) == SelectSeq(h, LAMBDA e : e.role = "user")
TurnOf(m) ==
  CHOOSE n \in 1 .. (MaxTurns + EvictTurns + PipeTurns + ConcTurns + StageTurns) : MessageOf(n) = m
Increasing(h) ==
  \A i, j \in 1 .. Len(h) : i < j => TurnOf(h[i].content) < TurnOf(h[j].content)

\* a step in which slot r passes validation and looks its session up
Begins(r) == req[r].pc \in {"idle", "done"} /\ req'[r].pc = "intent_call"

\* C1: once every request has completed, each stored history holds at most
\* maxHistoryLength turns, and the user turns it retains are in their
\* original order.
C1_HistoryBounded ==
  Quiet => \A k \in Sids :
             /\ Len(sessions[k].s.history) <= maxHistoryLength
             /\ Increasing(UserTurns(sessions[k].s.history))

\* what a lookup by slot r does to the store
C2_Step(r) ==
  LET sid == req'[r].sid
      ids == IdSeq(sessions)
  IN IF Has(sessions, sid)
     THEN IdSeq(sessions') = ids
     ELSE IF Len(sessions) >= maxSessions
     THEN /\ IdSeq(sessions') = Append(Tail(ids), sid)
          /\ \A k \in 2 .. Len(sessions) : sessions'[k - 1] = sessions[k]
     ELSE /\ IdSeq(sessions') = Append(ids, sid)
          /\ \A k \in 1 .. Len(sessions) : sessions'[k] = sessions[k]

\* C2: the store never holds more than maxSessions sessions; a lookup of an
\* unknown id at capacity removes exactly the first-inserted entry and then
\* appends the new one, leaving the others as they are; a lookup of a known
\* id (or below capacity) removes nothing.
C2_Capacity ==
  /\ Len(sessions) <= maxSessions
  /\ [][/\ Len(sessions') <= maxSessions
        /\ \A r \in Slots : Begins(r) => C2_Step(r)]_vars

\* the store was full, an unknown id arrived, and the first-inserted session
\* was removed although it had been used after the one that stays
C2_Witness ==
  /\ Len(sessions) = 2 /\ maxSessions = 2
  /\ sessions[1].id = "s2" /\ sessions[2].id = "g1"
  /\ UserTurns(sessions[1].s.history) = <<[role |-> "user", content |-> MessageOf(2)]>>
  /\ UserTurns(sessions[2].s.history) = <<[role |-> "user", content |-> MessageOf(4)]>>
  /\ sessions[1].s.lastActivity < sessions[2].s.createdAt

\* what a sweep does to the store
C3_SweepPost ==
  /\ \A k \in Sids : Idle(sessions[k].s) > sessionTimeout
                       => ~Has(sessions', sessions[k].id)
  /\ \A k \in Sids : Idle(sessions[k].s) <= sessionTimeout
                       => \E j \in 1 .. Len(sessions') : sessions'[j] = sessions[k]
  /\ Ids(sessions') \subseteq Ids(sessions)

\* the session a lookup by slot r creates for an id the store does not hold
C3_Fresh(r) ==
  LET sid == req'[r].sid
  IN ~Has(sessions, sid) =>
       LET s == Get(sessions', sid)
       IN /\ Len(s.history) = 1 /\ s.history[1].role = "user"
          /\ s.lastIntent = JNull /\ s.lastLocation = JNull
          /\ s.preferences = [propertyType |-> JNull, priceRange |-> JNull,
                              bedrooms |-> JNull, locations |-> JArr(<<>>)]
          /\ s.createdAt = now /\ s.lastActivity = now

\* C3: a sweep removes exactly the sessions idle for longer than
\* sessionTimeout and leaves every other session unchanged and in place; a
\* request that then looks up an id the store does not hold gets a new
\* session: only its own turn in the history, no last intent or location,
\* empty preferences.
C3_Sweep ==
  [][/\ Sweep => C3_SweepPost
     /\ \A r \in Slots : Begins(r) => C3_Fresh(r)]_vars

\* the sweep has removed the expired session of a request still in flight
C3_Witness ==
  \E r \in Slots :
    /\ InFlight(req[r]) /\ ~req[r].ctx.att
    /\ ~Has(sessions, req[r].sid)
    /\ now - req[r].ctx.s.lastActivity > sessionTimeout
    /\ last.op = "none"

\* slot r has answered 200 to a request whose intent was resolved
Answered(r) ==
  /\ req[r].pc = "done"
  /\ req[r].resp.status = 200
  /\ req[r].intentData # NoIntent

\* slot r has answered a located search
LocatedSearch(r) ==
  /\ Answered(r)
  /\ req[r].intentData.intent = JStr("search")
  /\ Truthy(req[r].intentData.location)

\* C4: when the resolved intent is greeting or advice, the searchUrl of the
\* response is null, whatever the generation service returned.
C4_NoUrlForGreetingAdvice ==
  \A r \in Slots :
    (Answered(r) /\ req[r].intentData.intent \in {JStr("greeting"), JStr("advice")})
      => req[r].resp.body.searchUrl = JNull

\* C5: when the resolved intent is search with a location and the listing
\* search found nothing, the searchUrl of the response is null.
C5_NoUrlWithoutMatches ==
  \A r \in Slots :
    (LocatedSearch(r) /\ req[r].searched /\ req[r].searchResults.count = 0)
      => req[r].resp.body.searchUrl = JNull

\* the filters the resolved intent carries, as decoded query parameters; a
\* price range shows both bounds, an absent or zero one as 0 and 10000000
ResolvedPairs(d) ==
  {<<"city", ToText(d.location)>>}
  \cup (IF Truthy(d.propertyType) /\ d.propertyType # JStr("any")
        THEN {<<"property", ToText(d.propertyType)>>} ELSE {})
  \cup (IF Truthy(d.bedrooms) THEN {<<"bedroom", ToText(d.bedrooms)>>} ELSE {})
  \cup (IF IsObj(d.priceRange)
        THEN {<<"minPrice", IF Truthy(d.priceRange.obj.min)
                            THEN ToText(d.priceRange.obj.min) ELSE <<"0">>>>,
              <<"maxPrice", IF Truthy(d.priceRange.obj.max)
                            THEN ToText(d.priceRange.obj.max)
                            ELSE <<"10000000">>>>}
        ELSE {})

IsListUrl(url) == IsTxt(url) /\ Len(url.txt) > 0 /\ url.txt[1] = "/list?"

ModelUrls == {JNull, ModelUrl, JTxt(<<"/list?", "city", "=", "Venus">>)}
WithUrl(reply, u) == [reply EXCEPT !.payload.searchUrl = u]

\* C7: for a search-like resolved intent with a location, two generation
\* replies that differ in their searchUrl only give the same searchUrl in
\* the response.
C7_UrlFromFiltersOnly ==
  \A r \in Slots :
    (/\ req[r].pc = "gen_call"
     /\ SearchLike(req[r].intentData.intent)
     /\ Truthy(req[r].intentData.location)) =>
      \A reply \in {g \in GenReplies : g.kind \in {"json", "embedded"}} :
        \A u1, u2 \in ModelUrls :
          LET out(u) == ChatOk(GenerateResponse(sessions, req[r].sid,
                                                req[r].intentData,
                                                WithUrl(reply, u), now).data,
                               req[r].sid)
          IN out(u1).body.searchUrl = out(u2).body.searchUrl

\* the texts the generation service sends
ModelTexts == {g.payload.reply : g \in {h \in GenReplies : h.kind \in {"json", "embedded"}}}

\* a fixed fallback body carrying the session id sid
IsFallbackBody(body, sid) ==
  /\ IsStr(body.reply) /\ body.reply.str # ""
  /\ body.reply \notin ModelTexts
  /\ body.searchUrl = JNull
  /\ IsArr(body.suggestions) /\ Len(body.suggestions.arr) > 0
  /\ body.sessionId = JStr(sid)

\* C8: a request with a non-blank message is answered 200 with its session
\* id, whatever the upstream calls did; when the completion service failed on
\* every attempt, or the generation service failed on every attempt or sent
\* no JSON object, the body is a fixed fallback: a non-empty reply that is
\* not the service's, a null searchUrl and a non-empty list of suggestions.
C8_AlwaysOk ==
  \A r \in Slots :
    (req[r].pc = "done" /\ req[r].sid # "") =>
      /\ req[r].resp.status = 200
      /\ req[r].sid \in {"s1"} \cup GenIds
      /\ req[r].resp.body.sessionId = JStr(req[r].sid)
      /\ (req[r].intentData = NoIntent \/ req[r].genReply.kind \in {"fail", "text"})
           => IsFallbackBody(req[r].resp.body, req[r].sid)

\* the completion service failed on all three attempts and the request,
\* sent without a session id, was answered 200
C8_Witness ==
  \E r \in Slots :
    /\ req[r].pc = "done" /\ req[r].sid \in GenIds
    /\ req[r].intentData = NoIntent
    /\ req[r].rt.fails = IntentMaxRetries /\ req[r].rt.out = "threw"
    /\ req[r].resp.status = 200

\* C9: when the listing store raises an error, the search result is
\* {count: 0, posts: []}, the request goes on to the generation call, and it
\* ends with a 200 response.
C9_DbErrorAbsorbed ==
  \A r \in Slots :
    req[r].dbError =>
      /\ req[r].searchResults = [count |-> 0, posts |-> <<>>]
      /\ req[r].pc \in {"gen_call", "gen_wait", "done"}
      /\ req[r].pc = "done" => /\ req[r].genReply.kind # "none"
                               /\ req[r].resp.status = 200

\* the store failed and the request was answered from the generation reply
C9_Witness ==
  \E r \in Slots :
    /\ req[r].pc = "done" /\ req[r].dbError
    /\ req[r].path = "direct" /\ req[r].resp.status = 200
    /\ req[r].resp.body.reply = JStr("r1")

Min(a, b) == IF a < b THEN a ELSE b

\* the counters of an invocation of retryWithBackoff at any moment
C10_State ==
  probe.out # "idle" =>
    /\ probe.calls <= probe.max
    /\ probe.out \in {"running", "returned"} => probe.calls = probe.fails + 1
    /\ probe.out = "returned" => probe.result = probe.calls
    /\ probe.out = "sleeping" => /\ probe.calls = probe.fails
                                 /\ probe.calls < probe.max
    /\ probe.out = "threw" => /\ probe.calls = probe.max
                              /\ probe.fails = probe.max
                              /\ probe.lastError = probe.max
    /\ probe.delays = [k \in 1 .. Min(probe.fails, probe.max - 1) |->
                         probe.base * Pow2(k - 1)]

\* C10: retryWithBackoff calls fn at most maxRetries times; it returns the
\* result of the first call that succeeds and calls no more; after the i-th
\* failure it waits baseDelay * 2^i when another attempt remains and not
\* otherwise; it throws the last error after exactly maxRetries failed calls.
C10_Retry ==
  /\ C10_State
  /\ [][/\ C10_State'
        /\ probe.out \in {"returned", "threw"} /\ probe' # probe
             => probe'.fails = 0 /\ probe'.delays = <<>> /\ probe'.calls <= 1]_vars

\* four attempts failed: three waits, each twice the one before, then the throw
C10_Witness ==
  /\ probe.out = "threw" /\ probe.max = 4 /\ probe.base = 500
  /\ probe.calls = 4
  /\ probe.delays = <<500, 1000, 2000>>

\* C11: when a request completes through its updateSessionContext call, the
\* store holds a session under the request's id, also when the session was
\* removed after the request's lookup.
C11_UpdateRecreates ==
  [][\A r \in Slots :
       (InFlight(req[r]) /\ req'[r].pc = "done" /\ req'[r].genReply.kind # "none")
         => /\ req'[r].resp.status = 200
            /\ Has(sessions', req'[r].sid)]_vars

FlowQueriesLocated ==
  \A r \in Slots :
    req[r].searched => /\ Len(req[r].where) > 0
                       /\ req[r].where[1].on = "location"

\* C13: the value detectIntent returns has all six fields defined, whatever
\* the completion service replied.
C13_AllFieldsDefined ==
  \A r \in Slots :
    req[r].intentData # NoIntent =>
      \A f \in IntentFields : req[r].intentData[f] # JUndef

Taxonomy ==
  {JStr("search"), JStr("advice"), JStr("greeting"), JStr("follow_up"),
   JStr("clarification")}

\* C14: the resolved intent is always one of search, advice, greeting,
\* follow_up, clarification, and the lastIntent of a stored session is null
\* or one of them.
C14_IntentInTaxonomy ==
  /\ \A r \in Slots :
       req[r].intentData # NoIntent => req[r].intentData.intent \in Taxonomy
  /\ \A k \in Sids : sessions[k].s.lastIntent \in {JNull} \cup Taxonomy

\* a missing, an empty and a whitespace-only message
BlankMessages == {JUndef, JNull, JTxt(<<>>), JTxt(<<" ">>), JTxt(<<" ", " ">>)}

\* what a request of slot r with a blank message leaves behind
C15_Rejected(r) ==
  /\ req'[r].pc = "done"
  /\ req'[r].resp.status = 400
  /\ req'[r].resp.body.reply = JStr("Please provide a message.")
  /\ req'[r].resp.body.searchUrl = JNull
  /\ req'[r].sid = "" /\ req'[r].rt.calls = 0
  /\ ~req'[r].searched /\ req'[r].genReply.kind = "none"
  /\ sessions' = sessions
  /\ \A q \in Slots \ {r} : req'[q] = req[q]

\* C15: a request whose message is missing, empty or whitespace-only is
\* answered 400 with the fixed body; it makes no upstream call, generates no
\* session id and leaves the session store as it was.
C15_BlankRejected ==
  [][\A r \in Slots, m \in BlankMessages, id \in SessionIdArgs, g \in GenIds :
       ChatStart(r, m, id, g, MaxTurns) => C15_Rejected(r)]_vars

\* a blank message was answered 400 while the store held a session
C15_Witness ==
  \E r \in Slots :
    /\ req[r].pc = "done" /\ req[r].resp.status = 400
    /\ Len(sessions) > 0
    /\ sessions[1].s.lastActivity < now

\* the store without the session of id, the others as they were
Without(st, id) == SelectSeq(st, LAMBDA e : e.id # id)

\* what clearSession(id) leaves behind
C16_Cleared(id) ==
  /\ ~Has(sessions', id)
  /\ sessions' = Without(sessions, id)
  /\ ~Has(sessions, id) => sessions' = sessions
  /\ last'.op = "clear" /\ last'.status = 200
  /\ last'.body = [reply |-> JStr("Session cleared. How can I help you today?"),
                   sessionId |-> JNull]

\* C16: after clearSession(id) the store holds no session under id and every
\* other session is as it was; on a store without id (so also on a second
\* call) it changes nothing; every call, with a known, unknown or missing
\* id, answers 200 with the fixed payload and sessionId null.
C16_ClearIdempotent ==
  [][\A id \in SessionIdArgs : ClearSession(id) => C16_Cleared(id)]_vars

\* two turns went to two ids, the first session was cleared and the second,
\* created later, stays as it was
C16_Witness ==
  /\ last.op = "clear" /\ turns = 2
  /\ Len(sessions) = 1 /\ sessions[1].id = "s2"
  /\ sessions[1].s.createdAt = 1
  /\ UserTurns(sessions[1].s.history) = <<[role |-> "user", content |-> MessageOf(2)]>>
  /\ \E r \in Slots : req[r].pc = "done" /\ req[r].sid = "s2"

\* what getSessionInfo(id) answers and leaves behind
C17_Info(id) ==
  /\ sessions' = sessions /\ req' = req
  /\ last'.op = "info"
  /\ IF id = "" \/ ~Has(sessions, id)
     THEN /\ last'.status = 404
          /\ ~Has(sessions', id)
     ELSE /\ last'.status = 200
          /\ last'.body.createdAt = Get(sessions, id).createdAt
          /\ last'.body.lastActivity = Get(sessions, id).lastActivity
          /\ last'.body.messageCount = Len(Get(sessions, id).history)
          /\ last'.body.preferences = Get(sessions, id).preferences

\* C17: getSessionInfo answers 404 for an unknown id and creates nothing; for
\* a known id it answers 200 with createdAt, lastActivity, the length of the
\* stored history and the preferences; the store is unchanged either way, so
\* lastActivity is not refreshed.
C17_InfoReadOnly ==
  [][\A id \in SessionIdArgs : GetSessionInfo(id) => C17_Info(id)]_vars

\* the info of a session idle for some time was read, and it is still idle
C17_Witness ==
  /\ last.op = "info" /\ last.status = 200
  /\ last.body.messageCount = 2
  /\ last.body.lastActivity < now
  /\ \E k \in Sids : sessions[k].s.lastActivity = last.body.lastActivity

\* the token a request presents: the cookie if there is one, else the
\* credentials of a Bearer header, else none
Presented(c, h) ==
  IF c \notin {JUndef, JStr("")} THEN c
  ELSE IF h # JUndef /\ h.scheme = "Bearer " /\ h.cred # "" THEN JStr(h.cred)
  ELSE JUndef

\* the status a request with cookie c and header h is refused with, 0 if none
Refusal(c, h) ==
  IF Presented(c, h) = JUndef THEN 401
  ELSE IF Presented(c, h) # JStr("valid") THEN 403
  ELSE 0

\* the request was answered by the middleware and nothing else happened
C18_Refused(status) ==
  /\ last'.op = "auth" /\ last'.status = status
  /\ sessions' = sessions /\ req' = req /\ turns' = turns

\* C18: on each of the three routes a request without a cookie token and
\* without Bearer credentials is answered 401, one whose token (the cookie
\* first, the Bearer credentials only without a cookie) does not verify is
\* answered 403, and in both cases the handler does not run and the session
\* store is unchanged.
C18_AuthFirst ==
  [][\A c \in Cookies, h \in Headers :
       Refusal(c, h) # 0 =>
         /\ \A m \in AuthMessages, id \in AuthIds, g \in GenIds :
              RouteChat(c, h, 1, m, id, g, MaxTurns) => C18_Refused(Refusal(c, h))
         /\ \A id \in AuthIds :
              /\ RouteClear(c, h, id) => C18_Refused(Refusal(c, h))
              /\ RouteSession(c, h, id) => C18_Refused(Refusal(c, h))]_vars

\* a request with a forged cookie (and whatever header) was answered 403
\* while the store held a session
C18_Witness ==
  /\ last.op = "auth" /\ last.status = 403
  /\ Len(sessions) = 1 /\ Len(sessions[1].s.history) = 2

\* a step in which slot r completes through the generation stage
Finishes(r) ==
  InFlight(req[r]) /\ req'[r].pc = "done" /\ req'[r].genReply.kind # "none"

\* the last n entries of h
Suffix(h, n) == IF Len(h) <= n THEN h ELSE SubSeq(h, Len(h) - n + 1, Len(h))

\* what the start and the completion of slot r do to a session that is in
\* the store, whatever the other slot has appended meanwhile
C19_Step(r) ==
  LET sid == req'[r].sid
      old == Get(sessions, sid)
      new == Get(sessions', sid)
  IN /\ (Begins(r) /\ Has(sessions, sid)) =>
          new.history = Append(old.history,
                               [role |-> "user", content |-> MessageOf(req'[r].turn)])
     /\ (Finishes(r) /\ Has(sessions, sid)) =>
          /\ req'[r].resp.status = 200
          /\ new.history =
               Suffix(Append(old.history,
                             [role |-> "model",
                              content |-> req'[r].resp.body.reply]),
                      maxHistoryLength)
          /\ new.lastIntent = req[r].intentData.intent
          /\ new.lastLocation = Or(req[r].intentData.location, old.lastLocation)

\* C19: with two requests in progress on one session that stays in the
\* store, every user turn and every assistant turn is appended to the
\* history as the other request left it (then cut to the last
\* maxHistoryLength entries at a completion), in the order of the steps, and
\* each completion writes its own lastIntent and lastLocation, so the stored
\* ones are those of the request that completed last.
C19_NoLostAppend ==
  [][\A r \in Slots : C19_Step(r)]_vars

\* both requests were in progress together; the one that arrived second
\* completed first, and the history ends with the two assistant turns in
\* completion order while lastIntent is that of the last completion
C19_Witness ==
  /\ req[1].pc = "done" /\ req[2].pc = "done"
  /\ req[1].turn = 1 /\ req[2].turn = 2
  /\ req[1].sid = "s1" /\ req[2].sid = "s1"
  /\ req[1].resp.body.reply = JStr("r1") /\ req[2].resp.body.reply = JStr("r2")
  /\ Get(sessions, "s1").history =
       Suffix(<<[role |-> "user", content |-> MessageOf(1)],
                [role |-> "user", content |-> MessageOf(2)],
                [role |-> "model", content |-> JStr("r2")],
                [role |-> "model", content |-> JStr("r1")]>>, maxHistoryLength)
  /\ req[1].intentData.intent = JStr("greeting")
  /\ req[2].intentData.intent = JStr("search")
  /\ Get(sessions, "s1").lastIntent = JStr("greeting")
  /\ Get(sessions, "s1").lastLocation = Lagos

\* the moves of a request from stage to stage
StageMoves ==
  {<<"idle", "intent_call">>, <<"done", "intent_call">>,
   <<"idle", "done">>, <<"done", "done">>,
   <<"intent_call", "intent_wait">>, <<"intent_wait", "intent_call">>,
   <<"intent_call", "search">>, <<"intent_call", "gen_call">>,
   <<"intent_call", "done">>,
   <<"search", "gen_call">>,
   <<"gen_call", "gen_wait">>, <<"gen_wait", "gen_call">>,
   <<"gen_call", "done">>}

\* the lastIntent and lastLocation of every session, by id
LastOf(st) == {<<st[k].id, st[k].s.lastIntent, st[k].s.lastLocation>> :
                 k \in 1 .. Len(st)}

\* one step of slot r
C20_Step(r) ==
  LET a == req[r].pc
      b == req'[r].pc
      d == req'[r].intentData
  IN req'[r] # req[r] =>
       /\ <<a, b>> \in StageMoves
       \* the search and the generation start with a resolved intent only
       /\ b \in {"search", "gen_call", "gen_wait"} => d # NoIntent
       /\ b = "gen_call" /\ req'[r].searched => a \in {"search", "gen_wait"}
       \* after the intent: the search exactly for a search-like intent with
       \* a location of its own or of the session
       /\ (a = "intent_call" /\ b \in {"search", "gen_call"}) =>
            LET loc == Or(d.location, Get(sessions, req[r].sid).lastLocation)
            IN /\ (b = "search") <=>
                    (/\ d.intent \in {JStr("search"), JStr("follow_up"),
                                      JStr("clarification")}
                     /\ Truthy(loc))
               /\ b = "search" =>
                    req'[r].where[1] = [on |-> "location", value |-> loc]
               /\ b = "gen_call" => ~req'[r].searched /\ req'[r].where = <<>>
       \* the intent failed on every attempt: no search, no generation
       /\ (a = "intent_call" /\ b = "done") =>
            /\ req'[r].rt.fails = IntentMaxRetries
            /\ ~req'[r].searched /\ req'[r].where = <<>>
            /\ req'[r].genReply.kind = "none"
            /\ req'[r].resp.status = 200
       \* only a completion through the generation stage writes lastIntent
       \* and lastLocation
       /\ ~Finishes(r) => LastOf(sessions) \subseteq LastOf(sessions')

\* C20: within a request the stages run in the order intent resolution,
\* listing search (exactly when the resolved intent is search, follow_up or
\* clarification and the intent or else the session gives a location),
\* response generation, each after the one before has completed; when the
\* intent resolution fails on every attempt no search and no generation call
\* is made and the lastIntent and lastLocation of the session stay as they
\* were.
C20_StageOrder ==
  [][\A r \in Slots : C20_Step(r)]_vars

\* after a located search and a follow-up that searched with the session's
\* location, the third request failed in the intent stage and left the
\* session's lastIntent and lastLocation alone
C20_Witness ==
  /\ req[1].pc = "done" /\ req[1].turn = 3
  /\ req[1].intentData = NoIntent /\ req[1].rt.out = "threw"
  /\ ~req[1].searched /\ req[1].genReply.kind = "none"
  /\ Get(sessions, "s1").lastIntent = JStr("follow_up")
  /\ Get(sessions, "s1").lastLocation = Lagos

\* the calls a request has made in the stage it is in
C21_Calls ==
  \A r \in Slots :
    /\ req[r].pc \in {"intent_call", "intent_wait"} => req[r].rt.calls \in 1 .. 3
    /\ req[r].pc \in {"gen_call", "gen_wait"} => req[r].rt.calls \in 1 .. 2

\* a request in progress has sent nothing, it sends its response in the step
\* that ends it, and nothing is sent for it afterwards
C21_Step(r) ==
  /\ InFlight(req[r]) => req[r].resp = NoResp
  /\ (InFlight(req[r]) /\ req'[r].pc = "done") =>
       /\ req'[r].turn = req[r].turn
       /\ req'[r].resp.status = 200
       /\ req'[r].rt.calls <= 3
       /\ req'[r].genReply.kind # "none" => req'[r].rt.calls <= 2
  /\ (req[r].pc = "done" /\ req'[r].pc = "done" /\ req'[r].turn = req[r].turn) =>
       req'[r].resp = req[r].resp

\* C21: when every upstream call is eventually answered or fails, a chat
\* request with a non-empty message eventually sends its response, exactly
\* one: it makes at most 3 intent-resolution calls and at most 2 generation
\* calls, and nothing is sent after the first response.
C21_OneResponse ==
  /\ \A n \in 1 .. StageTurns :
       (InFlight(req[1]) /\ req[1].turn = n)
         ~> (req[1].pc = "done" /\ req[1].turn = n /\ req[1].resp.status = 200)
  /\ []C21_Calls
  /\ [][\A r \in Slots : C21_Step(r)]_vars

\* a request was answered after both of its generation calls had failed
C21_Witness ==
  /\ req[1].pc = "done" /\ req[1].turn = 1
  /\ req[1].intentData # NoIntent
  /\ req[1].genReply.kind = "fail"
  /\ req[1].rt.calls = 2 /\ req[1].rt.fails = 2
  /\ req[1].resp.status = 200

\* C23: in every reachable state, under any interleaving of chat requests,
\* clears, sweeps and capacity evictions, a session held in the store whose
\* lastIntent is non-null has a non-empty history (lastIntent and lastLocation
\* are written only to a session that holds the turns of the request that
\* produced them).
C23_IntentHasHistory ==
  \A k \in Sids :
    sessions[k].s.lastIntent # JNull => Len(sessions[k].s.history) > 0

\* the request of slot r lost its session to a clear while in progress
Orphaned(r) == InFlight(req[r]) /\ ~req[r].ctx.att

\* C24: once clearSession(id) has removed a session the store holds no session
\* under id until a chat request carrying id begins after the clear: a request
\* that was in progress when the clear happened never re-creates a session
\* under id and never writes its intent, location, preferences or turns into
\* a session created later under the same id.
C24_ClearIsFinal ==
  [][\A r \in Slots :
       LET id == req[r].sid
       IN /\ (~Has(sessions, id) /\ Has(sessions', id)) =>
               \E q \in Slots : Begins(q) /\ req'[q].sid = id
          /\ (Orphaned(r) /\ req'[r].pc = "done" /\ Has(sessions, id)) =>
               Get(sessions', id) = Get(sessions, id)]_vars

\* the step is one of a getChat or readChat request of slot k
Reads(k) == calls'[k] # calls[k] /\ calls'[k].op \in {"getChat", "readChat"}

\* C25: getChat and readChat change a chat's seenBy list only when the caller
\* is one of the chat's participants (userIDs); a request made by a user who
\* is not a participant leaves that chat's stored state unchanged.
C25_SeenByParticipantsOnly ==
  [][\A k \in Slots : Reads(k) =>
       \A j \in 1 .. Len(chats) :
         calls'[k].user \notin Elems(chats[j].userIDs) => chats'[j] = chats[j]]_vars

====
